---- MODULE Spec2Model ----
(***************************************************************************)
(* A model of rivets: symbol-database resolution and hook installation     *)
(* (rivets-shared, rivets-macros) and the C++ type-signature algebra of    *)
(* pdb2hpp (Symbol).                                                       *)
(*                                                                         *)
(* Three specifications share the variables:                               *)
(*   Spec       the run-time installation protocol (ctor / inject / hook)  *)
(*   SpecMacro  the compile-time expansion of #[detour]                    *)
(*   SpecSymbol the Symbol value and its operations                        *)
(* Each holds the variables of the other two at their idle values.         *)
(***************************************************************************)
EXTENDS Integers, Sequences, FiniteSets, TLC

VARIABLES
    \* ---- run-time installation (Spec)
    pdb,          \* the public symbol records of factorio.pdb, in file order
    moduleBase,   \* what GetModuleHandleA("factorio.exe") returns (u64)
    target,       \* target[i]: the mangled name install i was generated for
    phase,        \* where install i's caller is: NotStarted / Injecting / Returned
    via,          \* who started install i: "none", "ctor" or "direct"
    cache,        \* cache[i]: the PDBCache inject built for install i
    address,      \* address[i]: what get_function_address returned to inject
    hookArg,      \* hookArg[i]: the address hook() was invoked with
    hookState,    \* Unresolved / AddressResolved / TrampolineBuilt / Enabled / Failed
    logged,       \* installs whose error the ctor wrote with tracing::error!
    subscriber,   \* a global default tracing subscriber is installed
    loader,       \* the ctor the loader is running now (0: none)
    alive,        \* the process has not been aborted by a panic
    panic,        \* which panic aborted it: none / connect / subscriber
    \* ---- macro expansion (SpecMacro)
    macroIn,      \* the attribute, the item's ABI and the demanglers' answers
    macroOut,     \* what detour() returned
    \* ---- Symbol (SpecSymbol)
    sym,          \* the Symbol: name (after Symbol::new), pointer_count, modifiers
    out           \* the last method call on it and what it returned

vars == << pdb, moduleBase, target, phase, via, cache, address, hookArg,
           hookState, logged, subscriber, loader, alive, panic,
           macroIn, macroOut, sym, out >>

hookVars == << pdb, moduleBase, target, phase, via, cache, address, hookArg,
               hookState, logged, subscriber, loader, alive, panic >>
macroVars == << macroIn, macroOut >>
symVars == << sym, out >>

-----------------------------------------------------------------------------
(* Bounds *)

NumInstalls == 2

Installs == 1..NumInstalls

-----------------------------------------------------------------------------
(* 64-bit and 32-bit unsigned integers, as little-endian 16-bit limbs *)

LimbBase == 65536

U64Zero == << 0, 0, 0, 0 >>

\* u64::from(x) for a u32 x = << low, high >>
U64From(x) == << x[1], x[2], 0, 0 >>

\* a + b on u64 (wrapping at 2^64)
Add64(a, b) ==
    LET s1 == a[1] + b[1]
        s2 == a[2] + b[2] + (s1 \div LimbBase)
        s3 == a[3] + b[3] + (s2 \div LimbBase)
        s4 == a[4] + b[4] + (s3 \div LimbBase)
    IN  << s1 % LimbBase, s2 % LimbBase, s3 % LimbBase, s4 % LimbBase >>

None64 == [some |-> FALSE, val |-> U64Zero]
Some64(v) == [some |-> TRUE, val |-> v]

-----------------------------------------------------------------------------
(* The symbol database *)

\* Option<Rva>: what data.offset.to_rva(&address_map) answers
NoRva == [some |-> FALSE, val |-> << 0, 0 >>]
Rva(lo, hi) == [some |-> TRUE, val |-> << lo, hi >>]

\* pdb::SymbolData records as symbol.parse() yields them; kind "Err" is a
\* record whose parse fails
PublicFn(n, r) == [kind |-> "Public", function |-> TRUE, name |-> n, rva |-> r]
PublicData(n, r) == [kind |-> "Public", function |-> FALSE, name |-> n, rva |-> r]
ParseErr == [kind |-> "Err", function |-> FALSE, name |-> "", rva |-> NoRva]

\* 0x1234, 0xFFFFFFFF, 0x10
PdbFiles ==
    { << PublicFn("MyFunc", Rva(4660, 0)) >>,
      << PublicFn("MyFunc", Rva(4660, 0)), PublicData("Missing", Rva(16, 0)),
         PublicFn("Other", NoRva) >>,
      << PublicFn("Other", Rva(16, 0)), PublicFn("MyFunc", Rva(4660, 0)),
         PublicFn("Other", Rva(65535, 65535)) >>,
      << PublicFn("MyFunc", Rva(4660, 0)), ParseErr >> }

\* 0x140000000 and 0x7FF6FFFF0000
ModuleBases == { << 0, 16384, 1, 0 >>, << 0, 65535, 32758, 0 >> }

TargetNames == { "MyFunc", "Other", "Missing" }

EmptyMap == [n \in {} |-> << 0, 0 >>]

Insert(m, k, v) == [n \in (DOMAIN m) \cup {k} |-> IF n = k THEN v ELSE m[n]]

\* PDBCache::build_symbol_map: Ok(map) or Err at the first record that fails
\* to parse; a failed RVA translation is stored as 0 (unwrap_or_default)
RECURSIVE build_symbol_map(_, _)
build_symbol_map(table, map) ==
    IF table = << >> THEN [ok |-> TRUE, symbol_addresses |-> map]
    ELSE LET s == Head(table) IN
         IF s.kind = "Err" THEN [ok |-> FALSE, symbol_addresses |-> map]
         ELSE IF s.kind = "Public" /\ s.function
              THEN build_symbol_map(Tail(table),
                       Insert(map, s.name, IF s.rva.some THEN s.rva.val ELSE << 0, 0 >>))
              ELSE build_symbol_map(Tail(table), map)

NoCache == [built |-> FALSE, symbol_addresses |-> EmptyMap, base_address |-> U64Zero]

\* PDBCache::new, given that the file opened and the module handle was found
PDBCacheNew(table, base) ==
    LET r == build_symbol_map(table, EmptyMap) IN
    IF r.ok
    THEN [built |-> TRUE, symbol_addresses |-> r.symbol_addresses, base_address |-> base]
    ELSE NoCache

\* a resolver that guesses the module base for a name it does not know
get_function_address_guess(c, function_name) ==
    IF function_name \in DOMAIN c.symbol_addresses
    THEN Some64(Add64(c.base_address, U64From(c.symbol_addresses[function_name])))
    ELSE Some64(c.base_address)

\* a resolver that drops the carry out of the low 32 bits
get_function_address_nocarry(c, function_name) ==
    IF function_name \in DOMAIN c.symbol_addresses
    THEN LET x == c.symbol_addresses[function_name]
             b == c.base_address
         IN  Some64(<< (b[1] + x[1]) % LimbBase, (b[2] + x[2]) % LimbBase, b[3], b[4] >>)
    ELSE None64

\* PDBCache::get_function_address
get_function_address(c, function_name) ==
    IF function_name \in DOMAIN c.symbol_addresses
    THEN Some64(Add64(c.base_address, U64From(c.symbol_addresses[function_name])))
    ELSE None64

-----------------------------------------------------------------------------
(* Idle values of the other specifications' variables *)

HookIdle ==
    /\ pdb = << >>
    /\ moduleBase = U64Zero
    /\ target = << >>
    /\ phase = << >>
    /\ via = << >>
    /\ cache = << >>
    /\ address = << >>
    /\ hookArg = << >>
    /\ hookState = << >>
    /\ logged = {}
    /\ subscriber = FALSE
    /\ loader = 0
    /\ alive = TRUE
    /\ panic = "none"

NoStr == [some |-> FALSE, val |-> ""]
SomeStr(t) == [some |-> TRUE, val |-> t]

MacroIdle ==
    /\ macroIn = [mangled |-> "", abi |-> NoStr, msvc |-> NoStr, itanium |-> NoStr]
    /\ macroOut = [done |-> FALSE, unmangled |-> "", asked |-> FALSE,
                   resolved |-> NoStr, callback |-> FALSE, hook |-> NoStr,
                   ctor |-> FALSE, diagnostics |-> << >>]

SymIdle ==
    /\ sym = [kind |-> "None", name |-> << >>, pointer_count |-> 0, modifiers |-> << >>]
    /\ out = [op |-> "none", panicked |-> FALSE, str |-> << >>, list |-> << >>,
              triples |-> << >>, rendered |-> ""]

-----------------------------------------------------------------------------
(* Spec: the installation protocol *)

Init ==
    /\ pdb \in PdbFiles
    /\ moduleBase \in ModuleBases
    /\ target \in [Installs -> TargetNames]
    /\ phase = [i \in Installs |-> "NotStarted"]
    /\ via = [i \in Installs |-> "none"]
    /\ cache = [i \in Installs |-> NoCache]
    /\ address = [i \in Installs |-> None64]
    /\ hookArg = [i \in Installs |-> None64]
    /\ hookState = [i \in Installs |-> "Unresolved"]
    /\ logged = {}
    /\ subscriber = FALSE
    /\ loader = 0
    /\ alive = TRUE
    /\ panic = "none"
    /\ MacroIdle
    /\ SymIdle

\* inject returns Err (bail! or `?`): the hook is Failed; the generated ctor
\* logs the error and returns, a direct caller is handed the Err
InjectErr(i) ==
    /\ hookState' = [hookState EXCEPT ![i] = "Failed"]
    /\ phase' = [phase EXCEPT ![i] = "Returned"]
    /\ logged' = IF via[i] = "ctor" THEN logged \cup {i} ELSE logged
    /\ loader' = IF via[i] = "ctor" THEN 0 ELSE loader

\* The loader runs install i's #[ctor]: start_stream(), then inject begins.
\* start_stream panics when the connection fails, and init() panics when a
\* global default subscriber is already set; a panic in a ctor aborts.
CtorStartStream(i) ==
    /\ alive
    /\ phase[i] = "NotStarted"
    /\ loader = 0
    /\ \E connected \in BOOLEAN :
         IF ~connected
         THEN /\ alive' = FALSE
              /\ panic' = "connect"
              /\ UNCHANGED << phase, via, subscriber, loader >>
         ELSE IF subscriber
         THEN /\ alive' = FALSE
              /\ panic' = "subscriber"
              /\ UNCHANGED << phase, via, subscriber, loader >>
         ELSE /\ subscriber' = TRUE
              /\ phase' = [phase EXCEPT ![i] = "Injecting"]
              /\ via' = [via EXCEPT ![i] = "ctor"]
              /\ loader' = i
              /\ UNCHANGED << alive, panic >>
    /\ UNCHANGED << pdb, moduleBase, target, cache, address, hookArg, hookState,
                    logged, macroVars, symVars >>

\* rivets::inject(name, hook) called by user code, outside a generated ctor
CallInject(i) ==
    /\ alive
    /\ phase[i] = "NotStarted"
    /\ phase' = [phase EXCEPT ![i] = "Injecting"]
    /\ via' = [via EXCEPT ![i] = "direct"]
    /\ UNCHANGED << pdb, moduleBase, target, cache, address, hookArg, hookState,
                    logged, subscriber, loader, alive, panic, macroVars, symVars >>

\* inject: factorio_path and PDBCache::new; any `?` failing returns Err
InjectBuildCache(i) ==
    /\ alive
    /\ phase[i] = "Injecting"
    /\ hookState[i] = "Unresolved"
    /\ ~cache[i].built
    /\ \E opened \in BOOLEAN :
         LET c == PDBCacheNew(pdb, moduleBase) IN
         IF opened /\ c.built
         THEN /\ cache' = [cache EXCEPT ![i] = c]
              /\ UNCHANGED << hookState, phase, logged, loader >>
         ELSE /\ InjectErr(i)
              /\ UNCHANGED cache
    /\ UNCHANGED << pdb, moduleBase, target, via, address, hookArg, subscriber,
                    alive, panic, macroVars, symVars >>

\* inject: let Some(address) = get_function_address(name) else bail!; then
\* hook(address) is entered
InjectResolve(i) ==
    /\ alive
    /\ phase[i] = "Injecting"
    /\ hookState[i] = "Unresolved"
    /\ cache[i].built
    /\ LET a == get_function_address(cache[i], target[i]) IN
         /\ address' = [address EXCEPT ![i] = a]
         /\ IF a.some
            THEN /\ hookState' = [hookState EXCEPT ![i] = "AddressResolved"]
                 /\ hookArg' = [hookArg EXCEPT ![i] = a]
                 /\ UNCHANGED << phase, logged, loader >>
            ELSE /\ InjectErr(i)
                 /\ UNCHANGED hookArg
    /\ UNCHANGED << pdb, moduleBase, target, via, cache, subscriber, alive, panic,
                    macroVars, symVars >>

\* hook: transmute(address) and Detour.initialize(compiled_function, callback)?
HookInitialize(i) ==
    /\ alive
    /\ phase[i] = "Injecting"
    /\ hookState[i] = "AddressResolved"
    /\ \E ok \in BOOLEAN :
         IF ok
         THEN /\ hookState' = [hookState EXCEPT ![i] = "TrampolineBuilt"]
              /\ UNCHANGED << phase, logged, loader >>
         ELSE InjectErr(i)
    /\ UNCHANGED << pdb, moduleBase, target, via, cache, address, hookArg,
                    subscriber, alive, panic, macroVars, symVars >>

\* hook: .enable()?; Ok(()) is returned through inject to the caller
HookEnable(i) ==
    /\ alive
    /\ phase[i] = "Injecting"
    /\ hookState[i] = "TrampolineBuilt"
    /\ \E ok \in BOOLEAN :
         IF ok
         THEN /\ hookState' = [hookState EXCEPT ![i] = "Enabled"]
              /\ phase' = [phase EXCEPT ![i] = "Returned"]
              /\ loader' = IF via[i] = "ctor" THEN 0 ELSE loader
              /\ UNCHANGED logged
         ELSE InjectErr(i)
    /\ UNCHANGED << pdb, moduleBase, target, via, cache, address, hookArg,
                    subscriber, alive, panic, macroVars, symVars >>

Next ==
    \E i \in Installs :
        \/ CtorStartStream(i)
        \/ CallInject(i)
        \/ InjectBuildCache(i)
        \/ InjectResolve(i)
        \/ HookInitialize(i)
        \/ HookEnable(i)

Spec == Init /\ [][Next]_vars

-----------------------------------------------------------------------------
(* Properties of the installation protocol *)

Rank(s) ==
    CASE s = "Unresolved" -> 0
      [] s = "AddressResolved" -> 1
      [] s = "TrampolineBuilt" -> 2
      [] s = "Enabled" -> 3
      [] s = "Failed" -> 4

\* a - b on u64 (wrapping), limb by limb with borrow
Sub64(a, b) ==
    LET d1 == a[1] - b[1]
        w1 == IF d1 < 0 THEN 1 ELSE 0
        d2 == a[2] - b[2] - w1
        w2 == IF d2 < 0 THEN 1 ELSE 0
        d3 == a[3] - b[3] - w2
        w3 == IF d3 < 0 THEN 1 ELSE 0
        d4 == a[4] - b[4] - w3
    IN  << (d1 + LimbBase) % LimbBase, (d2 + LimbBase) % LimbBase,
           (d3 + LimbBase) % LimbBase, (d4 + LimbBase) % LimbBase >>

\* C1: at most one Enabled hook exists per target address: two different
\* installations are never both Enabled on the same address (the second one
\* would have been rejected).
C1_OneEnabledHookPerAddress ==
    \A i, j \in Installs :
        (i # j /\ hookState[i] = "Enabled" /\ hookState[j] = "Enabled")
            => hookArg[i].val # hookArg[j].val

\* C2: a hook installation that failed inside a generated ctor is logged and
\* confined to that hook: no panic of a sibling's start_stream() on account
\* of the subscriber the earlier ctor installed ends the process, so every
\* sibling ctor still gets to run inject.
C2_FailureConfined ==
    \A i \in Installs :
        (hookState[i] = "Failed" /\ via[i] = "ctor")
            => (i \in logged /\ panic # "subscriber")

\* C3 (state part): the hook function has been invoked only with the address
\* resolution returned for the target name, every state from AddressResolved
\* on has had that invocation, and an absent name leaves the hook Failed
\* with the hook function never invoked.
C3_HookCalledWithResolved ==
    \A i \in Installs :
        /\ hookArg[i].some =>
               /\ cache[i].built
               /\ target[i] \in DOMAIN cache[i].symbol_addresses
               /\ address[i].some
               /\ hookArg[i] = address[i]
        /\ hookState[i] \in {"AddressResolved", "TrampolineBuilt", "Enabled"}
               => hookArg[i].some
        /\ (cache[i].built /\ hookState[i] # "Unresolved"
              /\ target[i] \notin DOMAIN cache[i].symbol_addresses)
               => (hookState[i] = "Failed" /\ ~hookArg[i].some)

\* C3 (step part): a hook's state changes only one step forward or into
\* Failed, and never once it is Enabled or Failed.
C3_StepForward ==
    \A i \in Installs :
        hookState'[i] # hookState[i] =>
            /\ hookState[i] \notin {"Enabled", "Failed"}
            /\ \/ hookState'[i] = "Failed"
               \/ Rank(hookState'[i]) = Rank(hookState[i]) + 1

\* C3: each hook moves strictly forward Unresolved -> AddressResolved ->
\* TrampolineBuilt -> Enabled; the hook function is invoked only after
\* resolution returned an address and with exactly that address; an absent
\* name gives Failed without invoking it; nothing leaves Failed or Enabled.
C3_StrictlyForward == [] C3_HookCalledWithResolved /\ [][C3_StepForward]_vars

C3_Witness ==
    \E i, j \in Installs :
        /\ hookState[i] = "Enabled" /\ hookArg[i].some
        /\ hookState[j] = "Failed" /\ cache[j].built
        /\ target[j] \notin DOMAIN cache[j].symbol_addresses

\* C6 (state part): once resolution has run against a built database, its
\* result is base_address + offset for a key of the map and none otherwise;
\* base 0x140000000 with "MyFunc" at 0x1234 gives 0x140001234.
C6_ResolveResult ==
    \A i \in Installs :
        (cache[i].built /\ hookState[i] # "Unresolved") =>
            LET m == cache[i].symbol_addresses
                b == cache[i].base_address
            IN  /\ target[i] \in DOMAIN m =>
                       /\ address[i].some
                       /\ Sub64(address[i].val, b) = U64From(m[target[i]])
                /\ target[i] \notin DOMAIN m => ~address[i].some
                /\ (b = << 0, 16384, 1, 0 >> /\ target[i] = "MyFunc"
                      /\ "MyFunc" \in DOMAIN m /\ m["MyFunc"] = << 4660, 0 >>)
                       => address[i] = Some64(<< 4660, 16384, 1, 0 >>)

\* C6 (step part): no step changes a built database's map or base address.
C6_DatabaseUnchanged ==
    \A i \in Installs : cache[i].built => cache'[i] = cache[i]

\* C6: resolve(name) is base_address + offset when name is a key of the
\* name->offset map and none otherwise, and no resolve call changes the map
\* or the base address.
C6_Resolve == [] C6_ResolveResult /\ [][C6_DatabaseUnchanged]_vars

C6_Witness ==
    \E i, j \in Installs :
        /\ address[i] = Some64(<< 4660, 16384, 1, 0 >>)
        /\ target[j] = "Missing" /\ cache[j].built
        /\ hookState[j] = "Failed" /\ ~address[j].some

-----------------------------------------------------------------------------
(* SpecMacro: the expansion of #[detour(mangled_name)] on a function item *)

\* the attribute text: mangled names, and bare identifiers no demangler accepts
MangledNames ==
    { "?foo@@YAXXZ", "_ZN3foo3barEv", "",
      "cdecl", "stdcall", "fastcall", "thiscall", "vectorcall",
      "__cdecl", "__stdcall", "__fastcall", "__thiscall", "__vectorcall",
      "__CDECL", "___cdecl", "__cdecl " }

\* what undname / cpp_demangle answer when they accept the name
MsvcAnswers == { NoStr, SomeStr("void __cdecl foo(void)"), SomeStr("void __stdcall foo(void)") }
ItaniumAnswers == { NoStr, SomeStr("foo::bar()") }

\* the ABI written on the item itself: none, extern "C", extern "stdcall"
ItemAbis == { NoStr, SomeStr("C"), SomeStr("stdcall") }

\* rivets_shared::demangle: the MSVC demangler first, then the Itanium one
demangle(in) == IF in.msvc.some THEN in.msvc ELSE in.itanium

\* a resolver that confuses two of the conventions
get_calling_convention_swapped(abi) ==
    CASE abi = "__cdecl" -> SomeStr("C")
      [] abi = "__stdcall" -> SomeStr("fastcall")
      [] abi = "__fastcall" -> SomeStr("stdcall")
      [] abi = "__thiscall" -> SomeStr("thiscall")
      [] abi = "__vectorcall" -> SomeStr("vectorcall")
      [] OTHER -> NoStr

\* rivets_shared::get_calling_convention: the extern "..." ABI, or None
get_calling_convention(abi) ==
    CASE abi = "__cdecl" -> SomeStr("C")
      [] abi = "__stdcall" -> SomeStr("stdcall")
      [] abi = "__fastcall" -> SomeStr("fastcall")
      [] abi = "__thiscall" -> SomeStr("thiscall")
      [] abi = "__vectorcall" -> SomeStr("vectorcall")
      [] OTHER -> NoStr

\* a macro that assumes extern "C" when the convention is unknown
determine_calling_convention_default(itemAbi, unmangled_name) ==
    IF itemAbi.some
    THEN [ok |-> FALSE, abi |-> "", err |-> "abi specified"]
    ELSE LET abi == get_calling_convention(unmangled_name) IN
         IF abi.some
         THEN [ok |-> TRUE, abi |-> abi.val, err |-> ""]
         ELSE [ok |-> TRUE, abi |-> "C", err |-> ""]

\* determine_calling_convention: Ok(abi), or Err when the item names an ABI
\* or the resolver returns None
determine_calling_convention(itemAbi, unmangled_name) ==
    IF itemAbi.some
    THEN [ok |-> FALSE, abi |-> "", err |-> "abi specified"]
    ELSE LET abi == get_calling_convention(unmangled_name) IN
         IF abi.some
         THEN [ok |-> TRUE, abi |-> abi.val, err |-> ""]
         ELSE [ok |-> FALSE, abi |-> "", err |-> "failed to determine calling convention"]

\* failure: emit the error at the call site and return the item unchanged
failure(callback, error_message) ==
    [callback |-> callback, hook |-> NoStr, ctor |-> FALSE,
     diagnostics |-> << [level |-> "Error", text |-> error_message] >>]

InitMacro ==
    /\ HookIdle
    /\ SymIdle
    /\ macroIn \in [mangled : MangledNames, abi : ItemAbis,
                    msvc : MsvcAnswers, itanium : ItaniumAnswers]
    /\ macroOut = [done |-> FALSE, unmangled |-> "", asked |-> FALSE,
                   resolved |-> NoStr, callback |-> FALSE, hook |-> NoStr,
                   ctor |-> FALSE, diagnostics |-> << >>]

\* detour(attr, item): on Err, failure() emits an error diagnostic and returns
\* the item alone; otherwise the item, hook() with the resolved ABI, and the
\* ctor, with the unmangled name emitted as a note
Detour ==
    /\ ~macroOut.done
    /\ LET d == demangle(macroIn)
           unmangled_name == IF d.some THEN d.val ELSE macroIn.mangled
           cc == determine_calling_convention(macroIn.abi, unmangled_name)
           result == IF ~cc.ok THEN failure(TRUE, cc.err)
                     ELSE [callback |-> TRUE, hook |-> SomeStr(cc.abi), ctor |-> TRUE,
                           diagnostics |-> << [level |-> "Note", text |-> unmangled_name] >>]
       IN  macroOut' =
             [done |-> TRUE,
              unmangled |-> unmangled_name,
              asked |-> ~macroIn.abi.some,
              resolved |-> IF macroIn.abi.some THEN NoStr
                           ELSE get_calling_convention(unmangled_name),
              callback |-> result.callback,
              hook |-> result.hook,
              ctor |-> result.ctor,
              diagnostics |-> result.diagnostics]
    /\ UNCHANGED << hookVars, macroIn, symVars >>

NextMacro == Detour

SpecMacro == InitMacro /\ [][NextMacro]_vars

ConventionResolverAnswer == get_calling_convention(macroOut.unmangled)

\* C4: when the calling-convention resolver returns none for the target, the
\* expansion holds no hook function and no ctor and an error is reported, and
\* a hook is only ever built with the ABI tag the resolver returned.
C4_UnknownConventionRefused ==
    macroOut.done =>
        /\ ~ConventionResolverAnswer.some =>
               /\ ~macroOut.hook.some
               /\ ~macroOut.ctor
               /\ \E k \in DOMAIN macroOut.diagnostics :
                      macroOut.diagnostics[k].level = "Error"
        /\ macroOut.hook.some =>
               /\ ConventionResolverAnswer.some
               /\ macroOut.hook.val = ConventionResolverAnswer.val
        /\ macroOut.ctor => macroOut.hook.some

C4_Witness ==
    /\ macroOut.done
    /\ ~macroIn.abi.some
    /\ macroOut.unmangled = "void __cdecl foo(void)"
    /\ ~macroOut.hook.some /\ ~macroOut.ctor
    /\ macroOut.diagnostics[1].level = "Error"

BareTokens == { "cdecl", "stdcall", "fastcall", "thiscall", "vectorcall" }

BareTag(t) == IF t = "cdecl" THEN "C" ELSE t

KeywordTokens == { "__cdecl", "__stdcall", "__fastcall", "__thiscall", "__vectorcall" }

KeywordTag(t) ==
    CASE t = "__cdecl" -> "C"
      [] t = "__stdcall" -> "stdcall"
      [] t = "__fastcall" -> "fastcall"
      [] t = "__thiscall" -> "thiscall"
      [] t = "__vectorcall" -> "vectorcall"

-----------------------------------------------------------------------------
(* SpecSymbol: the Symbol value of pdb2hpp.  Text is a sequence of           *)
(* one-character strings.                                                  *)

MaxLen == 4
MaxPtr == 2
MaxModLen == 15

RECURSIVE Str(_)
Str(s) == IF s = << >> THEN "" ELSE Head(s) \o Str(Tail(s))

Alphabet == { "a", ":", "<", ">", "," }

RECURSIVE TextsOfLen(_)
TextsOfLen(n) ==
    IF n = 0 THEN { << >> }
    ELSE { Append(t, c) : t \in TextsOfLen(n - 1), c \in Alphabet }

GeneratedTexts == UNION { TextsOfLen(n) : n \in 0..MaxLen }

ExampleTexts ==
    { << "F", "o", "o" >>,
      << "F", "o", "o", "<", "i", "n", "t", ">" >>,
      << "F", "o", "o", "<", "A", "<", "B", ",", "C", ">", ",", "D", ">" >>,
      << "n", "s", ":", ":", "O", "u", "t", "e", "r", "<", "T", "1", ",", "T", "2", ">", ":", ":", "I", "n", "n", "e", "r" >>,
      << "n", "s", ":", ":", "<", "x", ">" >>,
      << "s", "t", "d", ":", ":", "v", "e", "c", "t", "o", "r", "<", "i", "n", "t", ">" >>,
      << "n", "s", " ", ":", ":", " ", "F", "o", "o" >>,
      << " " >>,
      << "a", ">", ":", ":", "b", "<", "c" >>,
      << "F", "o", "o", "<", "A", ">", ",", "B", ">" >>,
      << "F", "o", "o", "<", "f", "(", "a", ",", "b", ")", ",", "3", ",", "1", ".", "5", ",", "7", ".", ">" >>,
      << "F", "o", "o", "<", "1", ",", ",", "2", ".", "0", ",", ">" >>,
      << "<", "l", "a", "m", "b", "d", "a", "_", "1", ">" >>,
      << "n", "s", ":", ":", "<", "l", "a", "m", "b", "d", "a", "_", "a", "b", "1", ">", ":", ":", "o", "p", "<", "T", ">" >>,
      << "<", "u", "n", "n", "a", "m", "e", "d", "-", "t", "a", "g", ">" >>,
      << "A", "<", "<", "u", "n", "n", "a", "m", "e", "d", "-", "t", "a", "g", ">", ",", "i", "n", "t", ">" >>,
      << "n", "s", ":", ":", "<", "u", "n", "n", "a", "m", "e", "d", "-", "t", "y", "p", "e", "-", "m", "_", "x", ">" >>,
      << "<", "u", "n", "n", "a", "m", "e", "d", "-", "e", "n", "u", "m", "-", "E", ">", ":", ":", "V" >>,
      << "<", "u", "n", "n", "a", "m", "e", "d", "-", "t", "y", "p", "e", "-", ">", ">" >>,
      << "<", "l", "a", "m", "b", "d", "a", "_", ">" >>,
      << "<", "l", "a", "m", "b", "d", "a", "_", "a", "-", "b", ">" >>,
      << "o", "p", "e", "r", "a", "t", "o", "r", "<", "<" >>,
      << "F", "<", "a", ",", "a", ",", "a", ",", "a", ",", "a", ",", "a", ",", "a", ",", "a", ">" >>,
      << "F", "<", "a", ",", "a", ",", "a", ",", "a", ",", "a", ",", "a", ",", "a", ",", "a", ",", "a", ",", "a", ",", "a", ",", "a", ",", "a", ",", "a", ",", "a", ">" >>,
      << "n", "s", ":", ":" >>,
      << ":", ":", "F", "o", "o" >> }

Modifiers == { << "c", "o", "n", "s", "t", " " >>, << "v", "o", "l", "a", "t", "i", "l", "e", " " >> }

NONETYPE_ERROR == << "/", "*", " ", "e", "r", "r", "o", "r", ":", " ", "a", "t", "t", "e", "m", "p", "t", " ", "t", "o", " ", "d", "i", "s", "p", "l", "a", "y", " ", "i", "n", "v", "a", "l", "i", "d", " ", "t", "y", "p", "e", " ", "*", "/" >>

Digits == { "0", "1", "2", "3", "4", "5", "6", "7", "8", "9" }

WordChars ==
    Digits \cup { "_" } \cup
    { "a", "b", "c", "d", "e", "f", "g", "h", "i", "j", "k", "l", "m",
      "n", "o", "p", "q", "r", "s", "t", "u", "v", "w", "x", "y", "z",
      "A", "B", "C", "D", "E", "F", "G", "H", "I", "J", "K", "L", "M",
      "N", "O", "P", "Q", "R", "S", "T", "U", "V", "W", "X", "Y", "Z" }

Whitespace == { " ", "\t" }

\* s[i..] starts with p
StartsWithAt(s, i, p) ==
    /\ i + Len(p) - 1 <= Len(s)
    /\ SubSeq(s, i, i + Len(p) - 1) = p

\* str::ends_with
EndsWith(s, p) ==
    /\ Len(p) <= Len(s)
    /\ SubSeq(s, Len(s) - Len(p) + 1, Len(s)) = p

\* the first index >= from holding c, or 0 (str::find)
RECURSIVE IndexFrom(_, _, _)
IndexFrom(s, c, from) ==
    IF from > Len(s) THEN 0
    ELSE IF s[from] = c THEN from
    ELSE IndexFrom(s, c, from + 1)

\* the last index holding c, or 0
RECURSIVE LastIndex(_, _, _)
LastIndex(s, c, upto) ==
    IF upto < 1 THEN 0
    ELSE IF s[upto] = c THEN upto
    ELSE LastIndex(s, c, upto - 1)

\* the first index >= from that holds no \w character, or Len(s) + 1
RECURSIVE WordEnd(_, _)
WordEnd(s, from) ==
    IF from > Len(s) THEN from
    ELSE IF s[from] \in WordChars THEN WordEnd(s, from + 1)
    ELSE from

\* str::trim
RECURSIVE TrimStart(_)
TrimStart(s) ==
    IF s # << >> /\ Head(s) \in Whitespace THEN TrimStart(Tail(s)) ELSE s

RECURSIVE TrimEnd(_)
TrimEnd(s) ==
    IF s # << >> /\ s[Len(s)] \in Whitespace
    THEN TrimEnd(SubSeq(s, 1, Len(s) - 1)) ELSE s

Trim(s) == TrimEnd(TrimStart(s))

\* "*".repeat(n)
RECURSIVE Stars(_)
Stars(n) == IF n = 0 THEN << >> ELSE << "*" >> \o Stars(n - 1)

UnnamedTagPattern == << "<", "u", "n", "n", "a", "m", "e", "d", "-", "t", "a", "g", ">" >>
UnnamedTagText == << "u", "n", "n", "a", "m", "e", "d", "_", "t", "a", "g" >>
LambdaOpen == << "<", "l", "a", "m", "b", "d", "a", "_" >>
LambdaText == << "l", "a", "m", "b", "d", "a", "_" >>
UnnamedTypeOpen == << "<", "u", "n", "n", "a", "m", "e", "d", "-", "t", "y", "p", "e", "-" >>
UnnamedEnumOpen == << "<", "u", "n", "n", "a", "m", "e", "d", "-", "e", "n", "u", "m", "-" >>

\* name.replace("<unnamed-tag>", "unnamed_tag")
RECURSIVE ReplaceUnnamedTag(_, _)
ReplaceUnnamedTag(s, i) ==
    IF i > Len(s) THEN << >>
    ELSE IF StartsWithAt(s, i, UnnamedTagPattern)
    THEN UnnamedTagText \o ReplaceUnnamedTag(s, i + Len(UnnamedTagPattern))
    ELSE << s[i] >> \o ReplaceUnnamedTag(s, i + 1)

\* regex <lambda_(\w+?)> replaced by lambda_$1, every match left to right
RECURSIVE ReplaceLambda(_, _)
ReplaceLambda(s, i) ==
    IF i > Len(s) THEN << >>
    ELSE LET from == i + Len(LambdaOpen)
             j == WordEnd(s, from)
         IN  IF /\ StartsWithAt(s, i, LambdaOpen)
                /\ j > from
                /\ j <= Len(s)
                /\ s[j] = ">"
             THEN LambdaText \o SubSeq(s, from, j - 1) \o ReplaceLambda(s, j + 1)
             ELSE << s[i] >> \o ReplaceLambda(s, i + 1)

\* regex <unnamed-(type|enum)-(.+?)> replaced by its second group
RECURSIVE ReplaceUnnamedType(_, _)
ReplaceUnnamedType(s, i) ==
    IF i > Len(s) THEN << >>
    ELSE LET from == i + Len(UnnamedTypeOpen)
             j == IndexFrom(s, ">", from + 1)
         IN  IF /\ \/ StartsWithAt(s, i, UnnamedTypeOpen)
                   \/ StartsWithAt(s, i, UnnamedEnumOpen)
                /\ j > 0
             THEN SubSeq(s, from, j - 1) \o ReplaceUnnamedType(s, j + 1)
             ELSE << s[i] >> \o ReplaceUnnamedType(s, i + 1)

\* Symbol::replace_unnamed_types
replace_unnamed_types(name) ==
    ReplaceUnnamedType(ReplaceLambda(ReplaceUnnamedTag(name, 1), 1), 1)

\* Symbol::_new
SymbolOf(kind, name) ==
    [kind |-> kind, name |-> name, pointer_count |-> 0, modifiers |-> << >>]

\* Symbol::new, Symbol::from_string, Symbol::none
SymbolNew(name) == SymbolOf("Symbol", replace_unnamed_types(name))
SymbolFromString(name) == SymbolOf("String", name)
SymbolNone == SymbolOf("None", << >>)

Returned(s) == [panicked |-> FALSE, str |-> s]
Panicked == [panicked |-> TRUE, str |-> << >>]

\* Symbol::as_str: the text before the first '<'; the assert panics when that
\* ends with "::"
as_str(self) ==
    CASE self.kind = "Symbol" ->
             LET i == IndexFrom(self.name, "<", 1)
                 without_templates == IF i = 0 THEN self.name
                                      ELSE SubSeq(self.name, 1, i - 1)
             IN  IF EndsWith(without_templates, << ":", ":" >>)
                 THEN Panicked
                 ELSE Returned(without_templates)
      [] self.kind = "String" -> Returned(self.name)
      [] OTHER -> Returned(NONETYPE_ERROR)

\* a fully_qualifed that renders the template-stripped base name
fully_qualifed_stripped(self) ==
    CASE self.kind = "Symbol" ->
             LET i == IndexFrom(self.name, "<", 1) IN
             self.modifiers
               \o (IF i = 0 THEN self.name ELSE SubSeq(self.name, 1, i - 1))
               \o Stars(self.pointer_count)
      [] self.kind = "String" -> self.name
      [] OTHER -> NONETYPE_ERROR

\* Symbol::fully_qualifed
fully_qualifed(self) ==
    CASE self.kind = "Symbol" ->
             self.modifiers \o self.name \o Stars(self.pointer_count)
      [] self.kind = "String" -> self.name
      [] OTHER -> NONETYPE_ERROR

\* the loop of namespace_vec over chars, from index i
RECURSIVE NamespaceWalk(_, _, _, _, _)
NamespaceWalk(chars, i, current, template_depth, result) ==
    IF i > Len(chars)
    THEN IF current # << >> THEN Append(result, Trim(current)) ELSE result
    ELSE CASE chars[i] = "<" ->
                  NamespaceWalk(chars, i + 1, Append(current, "<"),
                                template_depth + 1, result)
           [] chars[i] = ">" ->
                  NamespaceWalk(chars, i + 1, Append(current, ">"),
                                template_depth - 1, result)
           [] /\ chars[i] = ":"
              /\ template_depth = 0
              /\ i + 1 <= Len(chars)
              /\ chars[i + 1] = ":" ->
                  NamespaceWalk(chars, i + 2, << >>, template_depth,
                                Append(result, Trim(current)))
           [] OTHER ->
                  NamespaceWalk(chars, i + 1, Append(current, chars[i]),
                                template_depth, result)

\* Symbol::namespace_vec
namespace_vec(self) ==
    LET s == as_str(self) IN
    IF s.panicked THEN [panicked |-> TRUE, list |-> << >>]
    ELSE [panicked |-> FALSE, list |-> NamespaceWalk(s.str, 1, << >>, 0, << >>)]

NoCaptures == [some |-> FALSE, name |-> << >>, args |-> << >>]

\* regex (.+?)<(.*)> searched in type_name: group 1 runs to the first '<'
\* past the first character that a '>' follows, group 2 to the last '>'
TemplateCaptures(type_name) ==
    LET j == IndexFrom(type_name, "<", 2)
        k == LastIndex(type_name, ">", Len(type_name))
    IN  IF j > 0 /\ k > j
        THEN [some |-> TRUE, name |-> SubSeq(type_name, 1, j - 1),
              args |-> SubSeq(type_name, j + 1, k - 1)]
        ELSE NoCaptures

\* a split that takes every comma for a separator
RECURSIVE SplitEveryComma(_, _, _, _, _)
SplitEveryComma(chars, i, current, template_depth, result) ==
    IF i > Len(chars)
    THEN IF current # << >> THEN Append(result, current) ELSE result
    ELSE IF chars[i] = ","
    THEN SplitEveryComma(chars, i + 1, << >>, template_depth, Append(result, current))
    ELSE SplitEveryComma(chars, i + 1, Append(current, chars[i]), template_depth, result)

\* the loop of templates_vec over the argument text, from index i
RECURSIVE SplitTopLevel(_, _, _, _, _)
SplitTopLevel(chars, i, current, template_depth, result) ==
    IF i > Len(chars)
    THEN IF current # << >> THEN Append(result, current) ELSE result
    ELSE CASE chars[i] \in { "<", "(" } ->
                  SplitTopLevel(chars, i + 1, Append(current, chars[i]),
                                template_depth + 1, result)
           [] chars[i] \in { ">", ")" } ->
                  SplitTopLevel(chars, i + 1, Append(current, chars[i]),
                                IF template_depth - 1 < 0 THEN 0 ELSE template_depth - 1,
                                result)
           [] chars[i] = "," /\ template_depth = 0 ->
                  SplitTopLevel(chars, i + 1, << >>, template_depth,
                                Append(result, current))
           [] OTHER ->
                  SplitTopLevel(chars, i + 1, Append(current, chars[i]),
                                template_depth, result)

\* Symbol::templates_vec
templates_vec(self) ==
    IF self.kind # "Symbol" THEN << >>
    ELSE LET captures == TemplateCaptures(self.name) IN
         IF ~captures.some THEN << >>
         ELSE IF EndsWith(captures.name, << ":", ":" >>) THEN << >>
         ELSE SplitTopLevel(captures.args, 1, << >>, 0, << >>)

TemplateLetter(d) ==
    CASE d = 0 -> "T" [] d = 1 -> "U" [] d = 2 -> "V" [] d = 3 -> "W"
      [] d = 4 -> "X" [] d = 5 -> "Y" [] d = 6 -> "Z"

\* a naming that writes the low digit first
RECURSIVE number_to_template_type_name_low_first(_)
number_to_template_type_name_low_first(i) ==
    IF i <= 6 THEN TemplateLetter(i)
    ELSE number_to_template_type_name_low_first(i % 7)
           \o number_to_template_type_name_low_first(i \div 7)

\* templates_by_type::number_to_template_type_name
RECURSIVE number_to_template_type_name(_)
number_to_template_type_name(i) ==
    IF i <= 6 THEN TemplateLetter(i)
    ELSE number_to_template_type_name(i \div 7)
           \o number_to_template_type_name(i % 7)

AllDigits(s) == s # << >> /\ \A k \in DOMAIN s : s[k] \in Digits

\* regex ^\d+\.\d+$
IsFloatLiteral(s) ==
    \E k \in DOMAIN s :
        /\ s[k] = "."
        /\ AllDigits(SubSeq(s, 1, k - 1))
        /\ AllDigits(SubSeq(s, k + 1, Len(s)))

\* regex ^\d+$
IsIntLiteral(s) == AllDigits(s)

\* Symbol::templates_by_type
templates_by_type(self) ==
    LET v == templates_vec(self) IN
    [k \in DOMAIN v |->
        [keyword |-> IF IsFloatLiteral(v[k]) THEN "double"
                     ELSE IF IsIntLiteral(v[k]) THEN "long long"
                     ELSE "typename",
         identifier |-> number_to_template_type_name(k - 1),
         template |-> v[k]]]

RECURSIVE TemplatesLoop(_, _)
TemplatesLoop(tbt, i) ==
    IF i > Len(tbt) THEN ""
    ELSE (IF i # 1 THEN ", " ELSE "")
           \o tbt[i].keyword \o " " \o tbt[i].identifier
           \o TemplatesLoop(tbt, i + 1)

\* Symbol::templates
templates(tbt) ==
    IF tbt = << >> THEN "" ELSE "template <" \o TemplatesLoop(tbt, 1) \o "> "

NoOut == [op |-> "none", panicked |-> FALSE, str |-> << >>, list |-> << >>,
          triples |-> << >>, rendered |-> ""]

InitSymbol ==
    /\ HookIdle
    /\ MacroIdle
    /\ sym \in { SymbolNew(t) : t \in GeneratedTexts \cup ExampleTexts }
               \cup { SymbolFromString(t) : t \in ExampleTexts }
               \cup { SymbolNone }
    /\ out = NoOut

\* Symbol::increment_pointer_count
IncrementPointerCount ==
    /\ ~out.panicked
    /\ sym.pointer_count < MaxPtr
    /\ sym' = [sym EXCEPT !.pointer_count = @ + 1]
    /\ out' = [NoOut EXCEPT !.op = "increment_pointer_count"]
    /\ UNCHANGED << hookVars, macroVars >>

\* Symbol::add_modifiers
AddModifiers(m) ==
    /\ ~out.panicked
    /\ Len(sym.modifiers) + Len(m) <= MaxModLen
    /\ sym' = [sym EXCEPT !.modifiers = @ \o m]
    /\ out' = [NoOut EXCEPT !.op = "add_modifiers"]
    /\ UNCHANGED << hookVars, macroVars >>

CallAsStr ==
    /\ ~out.panicked
    /\ LET r == as_str(sym) IN
         out' = [NoOut EXCEPT !.op = "as_str", !.panicked = r.panicked, !.str = r.str]
    /\ UNCHANGED << sym, hookVars, macroVars >>

CallFullyQualifed ==
    /\ ~out.panicked
    /\ out' = [NoOut EXCEPT !.op = "fully_qualifed", !.str = fully_qualifed(sym)]
    /\ UNCHANGED << sym, hookVars, macroVars >>

CallNamespaceVec ==
    /\ ~out.panicked
    /\ LET r == namespace_vec(sym) IN
         out' = [NoOut EXCEPT !.op = "namespace_vec", !.panicked = r.panicked,
                              !.list = r.list]
    /\ UNCHANGED << sym, hookVars, macroVars >>

\* templates_by_type(), and templates() of its result
CallTemplatesByType ==
    /\ ~out.panicked
    /\ LET tbt == templates_by_type(sym) IN
         out' = [NoOut EXCEPT !.op = "templates_by_type", !.triples = tbt,
                              !.list = [k \in DOMAIN tbt |-> tbt[k].template],
                              !.rendered = templates(tbt)]
    /\ UNCHANGED << sym, hookVars, macroVars >>

NextSymbol ==
    \/ IncrementPointerCount
    \/ \E m \in Modifiers : AddModifiers(m)
    \/ CallAsStr
    \/ CallFullyQualifed
    \/ CallNamespaceVec
    \/ CallTemplatesByType

SpecSymbol == InitSymbol /\ [][NextSymbol]_vars

-----------------------------------------------------------------------------
(* Properties of Symbol *)

Strs(list) == [k \in DOMAIN list |-> Str(list[k])]

RECURSIVE JoinWith(_, _)
JoinWith(list, sep) ==
    IF list = << >> THEN << >>
    ELSE IF Len(list) = 1 THEN list[1]
    ELSE list[1] \o sep \o JoinWith(Tail(list), sep)

MinOf(S) == CHOOSE k \in S : \A j \in S : k <= j
MaxOf(S) == CHOOSE k \in S : \A j \in S : k >= j

\* the text before the first '<' of s (all of s when it has none)
BeforeFirstAngle(s) ==
    LET S == { k \in DOMAIN s : s[k] = "<" } IN
    IF S = {} THEN s ELSE SubSeq(s, 1, MinOf(S) - 1)

\* bracket depth after the first n characters of s, '<' up and '>' down
RECURSIVE AngleDepth(_, _)
AngleDepth(s, n) ==
    IF n = 0 THEN 0
    ELSE AngleDepth(s, n - 1)
           + (IF s[n] = "<" THEN 1 ELSE IF s[n] = ">" THEN -1 ELSE 0)

\* depth after the first n characters of s, '<' and '(' up, '>' and ')' down,
\* never below zero
RECURSIVE ClampedDepth(_, _)
ClampedDepth(s, n) ==
    IF n = 0 THEN 0
    ELSE LET d == ClampedDepth(s, n - 1) IN
         IF s[n] \in { "<", "(" } THEN d + 1
         ELSE IF s[n] \in { ">", ")" } THEN (IF d = 0 THEN 0 ELSE d - 1)
         ELSE d

HasTopLevelSeparator(seg) ==
    \E k \in 1..(Len(seg) - 1) :
        seg[k] = ":" /\ seg[k + 1] = ":" /\ AngleDepth(seg, k - 1) = 0

TopLevelCommas(s) ==
    { k \in DOMAIN s : s[k] = "," /\ ClampedDepth(s, k - 1) = 0 }

NoWhitespace(s) == \A k \in DOMAIN s : s[k] \notin Whitespace

WithoutTrailing(s, p) ==
    IF EndsWith(s, p) THEN SubSeq(s, 1, Len(s) - Len(p)) ELSE s

\* declarations with balanced template brackets
TemplatedDeclarations ==
    { << "F", "o", "o", "<", "i", "n", "t", ">" >>,
      << "s", "t", "d", ":", ":", "v", "e", "c", "t", "o", "r", "<", "i", "n", "t", ">" >>,
      << "n", "s", ":", ":", "O", "u", "t", "e", "r", "<", "T", "1", ",", "T", "2", ">", ":", ":", "I", "n", "n", "e", "r" >> }

\* C7: namespace split of a declaration keeps every <...> region as literal
\* text of its segment and splits only at the "::" of bracket depth 0, so
\* the segments joined by "::" give the declaration back, and
\* "ns::Outer<T1,T2>::Inner" yields exactly ["ns", "Outer<T1,T2>", "Inner"].
C7_SplitKeepsTemplateRegions ==
    (out.op = "namespace_vec" /\ ~out.panicked /\ sym.kind = "Symbol"
       /\ sym.name \in TemplatedDeclarations) =>
        /\ JoinWith(out.list, << ":", ":" >>) = sym.name
        /\ \A k \in DOMAIN out.list : ~HasTopLevelSeparator(out.list[k])
        /\ Str(sym.name) = "ns::Outer<T1,T2>::Inner" =>
               Strs(out.list) = << "ns", "Outer<T1,T2>", "Inner" >>

TemplateLetters == << "T", "U", "V", "W", "X", "Y", "Z" >>

IdentifierAt(k) == out.triples[k + 1].identifier

\* C8 as stated: positions 0..6 give T..Z, position 7 gives "TT", position
\* 13 gives "TZ" and position 14 gives "UT".
C8_IdentifiersAsStated ==
    out.op = "templates_by_type" =>
        /\ \A p \in 0..6 : p < Len(out.triples) => IdentifierAt(p) = TemplateLetters[p + 1]
        /\ 7 < Len(out.triples) => IdentifierAt(7) = "TT"
        /\ 13 < Len(out.triples) => IdentifierAt(13) = "TZ"
        /\ 14 < Len(out.triples) => IdentifierAt(14) = "UT"

\* C8 as amended: the identifier of 0-based position i is i written in base
\* 7 with the digits T,U,V,W,X,Y,Z, most significant first: positions 0..6
\* give T..Z, position 7 gives "UT", position 13 gives "UZ" and position 14
\* gives "VT".
C8_IdentifiersBase7 ==
    out.op = "templates_by_type" =>
        /\ \A p \in 0..6 : p < Len(out.triples) => IdentifierAt(p) = TemplateLetters[p + 1]
        /\ \A p \in 7..48 : p < Len(out.triples) =>
               IdentifierAt(p) = TemplateLetters[(p \div 7) + 1] \o TemplateLetters[(p % 7) + 1]
        /\ 7 < Len(out.triples) => IdentifierAt(7) = "UT"
        /\ 13 < Len(out.triples) => IdentifierAt(13) = "UZ"
        /\ 14 < Len(out.triples) => IdentifierAt(14) = "VT"

C8_Witness ==
    /\ out.op = "templates_by_type"
    /\ Len(out.triples) = 15
    /\ IdentifierAt(6) = "Z"
    /\ IdentifierAt(7) = "UT"
    /\ IdentifierAt(14) = "VT"

StarsOf(n) == [k \in 1..n |-> "*"]

IsPrefix(a, b) == Len(a) <= Len(b) /\ SubSeq(b, 1, Len(a)) = a

C9_Rendering ==
    (out.op = "fully_qualifed" /\ sym.kind = "Symbol") =>
        /\ out.str = sym.modifiers \o sym.name \o StarsOf(sym.pointer_count)
        /\ (/\ sym.pointer_count = 0
            /\ sym.modifiers = << >>
            /\ \A k \in DOMAIN sym.name : sym.name[k] # "<"
            /\ ~as_str(sym).panicked) => out.str = as_str(sym).str
        /\ (Str(sym.name) = "Foo" /\ sym.pointer_count = 2
              /\ Str(sym.modifiers) = "const ") => Str(out.str) = "const Foo**"

\* C9 (step part): pointer depth never decreases, modifier text only grows
\* at its end, and the declaration text is never changed.
C9_Monotone ==
    /\ sym'.pointer_count >= sym.pointer_count
    /\ IsPrefix(sym.modifiers, sym'.modifiers)
    /\ sym'.name = sym.name

OpenAngle(s) ==
    LET S == { k \in 2..Len(s) : s[k] = "<" } IN IF S = {} THEN 0 ELSE MinOf(S)

CloseAngle(s) ==
    LET S == { k \in DOMAIN s : s[k] = ">" } IN IF S = {} THEN 0 ELSE MaxOf(S)

\* C10: template-argument extraction splits the argument text of name<args>
\* on exactly the commas at clamped bracket/paren depth zero, keeps the
\* arguments in source order, yields ["A<B,C>", "D"] for "Foo<A<B,C>,D>",
\* and yields nothing when the name part ends with "::" (or the pattern does
\* not match).
C10_TopLevelCommaSplit ==
    (out.op = "templates_by_type" /\ sym.kind = "Symbol") =>
        LET open == OpenAngle(sym.name)
            close == CloseAngle(sym.name)
            matched == open > 0 /\ close > open
            name == SubSeq(sym.name, 1, open - 1)
            args == SubSeq(sym.name, open + 1, close - 1)
            endsWithComma == args # << >> /\ Len(args) \in TopLevelCommas(args)
        IN  /\ ~matched => out.list = << >>
            /\ (matched /\ EndsWith(name, << ":", ":" >>)) => out.list = << >>
            /\ (matched /\ ~EndsWith(name, << ":", ":" >>)) =>
                   /\ JoinWith(out.list, << "," >>)
                          = (IF endsWithComma THEN SubSeq(args, 1, Len(args) - 1) ELSE args)
                   /\ Len(out.list) = Cardinality(TopLevelCommas(args))
                          + (IF endsWithComma \/ args = << >> THEN 0 ELSE 1)
                   /\ \A k \in DOMAIN out.list : TopLevelCommas(out.list[k]) = {}
            /\ Str(sym.name) = "Foo<A<B,C>,D>" => Strs(out.list) = << "A<B,C>", "D" >>

C10_Witness ==
    /\ out.op = "templates_by_type"
    /\ sym.kind = "Symbol"
    /\ Str(sym.name) = "Foo<A<B,C>,D>"
    /\ Strs(out.list) = << "A<B,C>", "D" >>

\* the operations of the signature decomposition
DecompositionOps == { "as_str", "namespace_vec", "templates_by_type", "fully_qualifed" }

\* C11: signature decomposition is total: for every declaration text, also a
\* malformed one such as a text whose first '<' directly follows "::" or one
\* with unbalanced brackets, as_str, namespace_vec, templates_by_type and
\* fully_qualifed on the constructed signature never panic and return a
\* result.
C11_DecompositionTotal ==
    out.op \in DecompositionOps => ~out.panicked

====
